---- MODULE Spec2Model ----
(***************************************************************************)
(* Model of the Merge-o-matic 2000 data pipeline (js/dataProcessing.js):   *)
(* interval parsing and time-grid generation, duplicate-timestamp          *)
(* resolution, missing-value cleanup, alignment to the grid and the        *)
(* createCombinedDataset orchestrator.                                     *)
(*                                                                         *)
(* Numbers are exact rationals (n/d, d > 0, reduced); JavaScript doubles   *)
(* agree with them on every value the bounded inputs produce except for    *)
(* rounding in the last bit.  Text is a sequence of one-character strings. *)
(* A timestamp text is abstracted to the instant it denotes plus the       *)
(* spelling variant it is written in: Date parsing forgets the variant,    *)
(* String() keeps it.                                                      *)
(***************************************************************************)
EXTENDS Integers, Sequences, FiniteSets, TLC

VARIABLES
    \* generateTimeIndex(start, end, interval)
    gInterval, gStart, gEnd, intervalMs, current, timestamps, gpc,
    \* handleDuplicates(data, dateTimeCol, method)
    dData, dMethod, dOverlap, dOut, dpc,
    \* applyCleanup(data, column, method, dateTimeCol)
    cData, cMethod, cOut, cpc,
    \* createCombinedDataset(filesData, timestamps, alignmentOptions)
    filesData, kGrid, alignmentOptions, combined, processedData,
    fileIdx, colIdx, kpc,
    \* alignToTimestamps(data, targetTimestamps, dateTimeCol, valueCol, method)
    aData, aInterval, aGrid, aMethod, aOut, apc,
    \* FileHandlers.pivotToWideFormat(data, dateTimeCol, tagCol, valueCol)
    pData, pOut, ppc,
    \* AppState.files, AppState.stacks and the last handler that ran
    files, stacks, spc

gridVars == <<gInterval, gStart, gEnd, intervalMs, current, timestamps, gpc>>
dupVars == <<dData, dMethod, dOverlap, dOut, dpc>>
cleanVars == <<cData, cMethod, cOut, cpc>>
combineVars == <<filesData, kGrid, alignmentOptions, combined, processedData,
                 fileIdx, colIdx, kpc>>
alignVars == <<aData, aInterval, aGrid, aMethod, aOut, apc>>
pivotVars == <<pData, pOut, ppc>>
stackVars == <<files, stacks, spc>>
restVars == <<alignVars, pivotVars, stackVars>>
vars == <<gridVars, dupVars, cleanVars, combineVars, restVars>>

(***************************************************************************)
(* Bounds of the model.                                                    *)
(***************************************************************************)
MaxGrid == 6        \* cap on the number of grid entries generated
MaxRows == 3        \* longest record sequence given to handleDuplicates
MaxSeries == 3      \* longest record sequence given to applyCleanup
MaxFileRows == 2    \* longest record sequence of the first source of a combine
MaxAlignRows == 3   \* longest record sequence given to alignToTimestamps
MaxPivotRows == 3   \* longest long-format record sequence given to pivotToWideFormat
MaxStackRows == 2   \* longest record sequence of a file offered for stacking
MaxLifeRows == 1    \* longest record sequence of the first file when files come and go

(***************************************************************************)
(* Generic helpers.                                                        *)
(***************************************************************************)
Abs(x) == IF x < 0 THEN -x ELSE x

RECURSIVE GCD(_, _)
GCD(a, b) == IF b = 0 THEN a ELSE GCD(b, a % b)

\* the greatest and the least element of a non-empty set of integers
MaxOf(S) == CHOOSE x \in S : \A y \in S : y <= x
MinOf(S) == CHOOSE x \in S : \A y \in S : x <= y

\* All sequences over S of length 0..n
SeqUpTo(S, n) == UNION { [1..k -> S] : k \in 0..n }

Digits == <<"0", "1", "2", "3", "4", "5", "6", "7", "8", "9">>
IsDigit(c) == \E i \in 1..10 : Digits[i] = c
DigitVal(c) == (CHOOSE i \in 1..10 : Digits[i] = c) - 1

\* length of the longest prefix of s made of decimal digits, from position i
RECURSIVE DigitRun(_, _)
DigitRun(s, i) ==
    IF i <= Len(s) /\ IsDigit(s[i]) THEN 1 + DigitRun(s, i + 1) ELSE 0

\* value of the decimal digit string s
RECURSIVE DecVal(_)
DecVal(s) ==
    IF s = <<>> THEN 0
    ELSE 10 * DecVal(SubSeq(s, 1, Len(s) - 1)) + DigitVal(s[Len(s)])

(***************************************************************************)
(* JavaScript values held in record fields.  Every value has the same      *)
(* shape: k is the kind, n/d a rational, s a text.                         *)
(*   "num"   the number n/d                                                *)
(*   "str"   the text s ("" is <<>>)                                       *)
(*   "date"  a timestamp text denoting instant n (ms), written in the      *)
(*           spelling variant s ("2024-01-01 00:05" / "2024-01-01T00:05")  *)
(*   "null", "undef", "nan"                                                *)
(***************************************************************************)
Val(k, n, d, s) == [k |-> k, n |-> n, d |-> d, s |-> s]
Null == Val("null", 0, 1, <<>>)
Undefined == Val("undef", 0, 1, <<>>)
NaN == Val("nan", 0, 1, <<>>)
Str(s) == Val("str", 0, 1, s)
DateText(t, variant) == Val("date", t, 1, variant)

\* the rational n/d in lowest terms with a positive denominator
Rat(n, d) ==
    LET g == GCD(Abs(n), Abs(d))
        sg == IF d < 0 THEN -1 ELSE 1
    IN  Val("num", sg * (n \div g), sg * (d \div g), <<>>)
Num(n) == Rat(n, 1)

RAdd(a, b) == Rat(a.n * b.d + b.n * a.d, a.d * b.d)
RSub(a, b) == Rat(a.n * b.d - b.n * a.d, a.d * b.d)
RMul(a, b) == Rat(a.n * b.n, a.d * b.d)
RDivInt(a, m) == Rat(a.n, a.d * m)
RLess(a, b) == a.n * b.d < b.n * a.d

IsNaN(v) == v.k = "nan"

\* row[col]: a field that is absent reads as undefined
Get(row, col) == IF col \in DOMAIN row THEN row[col] ELSE Undefined

\* { [col]: v }: the record's other fields are not carried over
WithoutSpread(row, col, v) == (col :> v)

\* { ...row, [col]: v }
With(row, col, v) ==
    [c \in (DOMAIN row) \cup {col} |-> IF c = col THEN v ELSE row[c]]

RECURSIVE Pow10(_)
Pow10(k) == IF k = 0 THEN 1 ELSE 10 * Pow10(k - 1)

RECURSIVE SpaceRun(_, _)
SpaceRun(s, i) == IF i <= Len(s) /\ s[i] = " " THEN 1 + SpaceRun(s, i + 1) ELSE 0

\* parseFloat on a text: leading blanks, optional sign, digits, optional
\* fraction; whatever follows is ignored; no digit at all gives NaN
ParseFloatText(s) ==
    LET p0 == 1 + SpaceRun(s, 1)
        neg == p0 <= Len(s) /\ s[p0] = "-"
        p1 == IF p0 <= Len(s) /\ s[p0] \in {"-", "+"} THEN p0 + 1 ELSE p0
        k1 == DigitRun(s, p1)
        p2 == p1 + k1
        dot == p2 <= Len(s) /\ s[p2] = "."
        k2 == IF dot THEN DigitRun(s, p2 + 1) ELSE 0
        whole == DecVal(SubSeq(s, p1, p1 + k1 - 1))
        frac == DecVal(SubSeq(s, p2 + 1, p2 + k2))
        mag == Rat(whole * Pow10(k2) + frac, Pow10(k2))
    IN  IF k1 + k2 = 0 THEN NaN
        ELSE IF neg THEN RSub(Num(0), mag) ELSE mag

\* parseFloat(v): numbers pass, texts are parsed, null/undefined give NaN.
\* Timestamp texts are never handed to parseFloat by the modelled calls.
parseFloat(v) ==
    CASE v.k = "num" -> v
      [] v.k = "str" -> ParseFloatText(v.s)
      [] OTHER -> NaN

\* decimal text of a natural number
RECURSIVE NatText(_)
NatText(m) ==
    IF m < 10 THEN <<Digits[m + 1]>>
    ELSE NatText(m \div 10) \o <<Digits[(m % 10) + 1]>>

\* String(v): the text a value is written as.  A timestamp text is its own
\* text (instant and spelling together); two spellings of one instant differ.
StringOf(v) ==
    CASE v.k = "null" -> Str(<<"n", "u", "l", "l">>)
      [] v.k = "undef" -> Str(<<"u", "n", "d", "e", "f", "i", "n", "e", "d">>)
      [] v.k = "nan" -> Str(<<"N", "a", "N">>)
      [] v.k = "num" /\ v.d = 1 /\ v.n >= 0 -> Str(NatText(v.n))
      [] OTHER -> v

\* new Date(v).getTime(): the instant a timestamp text denotes; NaN for a
\* text that is no date and for undefined; null is the epoch
DateTime(v) ==
    CASE v.k = "date" -> Num(v.n)
      [] v.k = "num" /\ v.d = 1 -> v
      [] v.k = "null" -> Num(0)
      [] OTHER -> NaN

\* row[col] != null && row[col] !== ''
IsValid(v) == ~(v.k \in {"null", "undef"}) /\ v # Str(<<>>)

(***************************************************************************)
(* Array.prototype.sort with the comparator dateA - dateB: stable,         *)
(* ascending by instant.  Rows are required to carry parsable timestamps.  *)
(***************************************************************************)
TimeOf(row, dateTimeCol) == DateTime(Get(row, dateTimeCol)).n

RECURSIVE InsertByTime(_, _, _)
InsertByTime(row, sorted, dateTimeCol) ==
    IF sorted = <<>> THEN <<row>>
    ELSE IF TimeOf(row, dateTimeCol) < TimeOf(Head(sorted), dateTimeCol)
         THEN <<row>> \o sorted
         ELSE <<Head(sorted)>> \o InsertByTime(row, Tail(sorted), dateTimeCol)

RECURSIVE SortByTime(_, _)
SortByTime(data, dateTimeCol) ==
    IF data = <<>> THEN <<>>
    ELSE InsertByTime(data[Len(data)],
                      SortByTime(SubSeq(data, 1, Len(data) - 1), dateTimeCol),
                      dateTimeCol)

(***************************************************************************)
(* Missing-value cleanup: applyCleanup, fillNearest, fillInterpolate.      *)
(***************************************************************************)
\* lastValid !== null, written as a truthiness test (0 does not propagate)
CanFillTruthy(lastValid) == lastValid # Null /\ lastValid # Num(0)

\* lastValid !== null
CanFill(lastValid) == lastValid # Null

\* the forward loop of fillNearest from the head of rows
RECURSIVE ForwardFill(_, _, _)
ForwardFill(rows, column, lastValid) ==
    IF rows = <<>> THEN <<>>
    ELSE LET row == Head(rows) IN
         IF IsValid(Get(row, column))
         THEN <<row>> \o ForwardFill(Tail(rows), column, Get(row, column))
         ELSE IF CanFill(lastValid)
              THEN <<With(row, column, lastValid)>>
                       \o ForwardFill(Tail(rows), column, lastValid)
              ELSE <<row>> \o ForwardFill(Tail(rows), column, lastValid)

\* the backward loop of fillNearest from the last of rows
RECURSIVE BackwardFill(_, _, _)
BackwardFill(rows, column, lastValid) ==
    IF rows = <<>> THEN <<>>
    ELSE LET row == rows[Len(rows)]
             front == SubSeq(rows, 1, Len(rows) - 1)
         IN  IF IsValid(Get(row, column))
             THEN Append(BackwardFill(front, column, Get(row, column)), row)
             ELSE IF CanFill(lastValid)
                  THEN Append(BackwardFill(front, column, lastValid),
                              With(row, column, lastValid))
                  ELSE Append(BackwardFill(front, column, lastValid), row)

\* fillNearest with the two passes in the other order
fillNearestBackwardFirst(data, column) ==
    ForwardFill(BackwardFill(data, column, Null), column, Null)

fillNearest(data, column) ==
    BackwardFill(ForwardFill(data, column, Null), column, Null)

\* prevIdx: the nearest index below i holding a valid value, 0 if none
RECURSIVE PrevValidIdx(_, _, _)
PrevValidIdx(result, column, p) ==
    IF p >= 1 /\ ~IsValid(Get(result[p], column))
    THEN PrevValidIdx(result, column, p - 1) ELSE p

\* nextIdx: the nearest index above i holding a valid value, Len+1 if none
RECURSIVE NextValidIdx(_, _, _)
NextValidIdx(result, column, q) ==
    IF q <= Len(result) /\ ~IsValid(Get(result[q], column))
    THEN NextValidIdx(result, column, q + 1) ELSE q

\* prevVal + ratio * (nextVal - prevVal), ratio = (t - t0) / (t1 - t0)
Interpolate(prevVal, nextVal, prevTime, nextTime, currTime) ==
    RAdd(prevVal,
         RMul(Rat(currTime - prevTime, nextTime - prevTime),
              RSub(nextVal, prevVal)))

\* one iteration of the loop of fillInterpolate, on the array being filled
InterpolateAt(result, i, column, dateTimeCol) ==
    IF IsValid(Get(result[i], column)) THEN result
    ELSE LET prevIdx == PrevValidIdx(result, column, i - 1)
             nextIdx == NextValidIdx(result, column, i + 1)
         IN  IF prevIdx >= 1 /\ nextIdx <= Len(result)
             THEN LET prevVal == parseFloat(Get(result[prevIdx], column))
                      nextVal == parseFloat(Get(result[nextIdx], column))
                      prevTime == TimeOf(result[prevIdx], dateTimeCol)
                      nextTime == TimeOf(result[nextIdx], dateTimeCol)
                      currTime == TimeOf(result[i], dateTimeCol)
                  IN  IF ~IsNaN(prevVal) /\ ~IsNaN(nextVal) /\ prevTime # nextTime
                      THEN [result EXCEPT ![i] =
                               With(@, column,
                                    Interpolate(prevVal, nextVal, prevTime,
                                                nextTime, currTime))]
                      ELSE result
             ELSE IF prevIdx >= 1
                  THEN [result EXCEPT ![i] =
                           With(@, column, Get(result[prevIdx], column))]
                  ELSE IF nextIdx <= Len(result)
                       THEN [result EXCEPT ![i] =
                                With(@, column, Get(result[nextIdx], column))]
                       ELSE result

RECURSIVE InterpolateFrom(_, _, _, _)
InterpolateFrom(result, i, column, dateTimeCol) ==
    IF i > Len(result) THEN result
    ELSE InterpolateFrom(InterpolateAt(result, i, column, dateTimeCol),
                         i + 1, column, dateTimeCol)

fillInterpolate(data, column, dateTimeCol) ==
    InterpolateFrom(data, 1, column, dateTimeCol)

NearestFill == "Fill with nearest available value"
LinearFill == "Fill with a linear interpolation between the nearest values"
DropRow == "Delete the entire row of data"
ZeroFill == "Fill with zero"

applyCleanup(data, column, method, dateTimeCol) ==
    LET sorted == SortByTime(data, dateTimeCol)
    IN  CASE method = NearestFill -> fillNearest(sorted, column)
          [] method = LinearFill -> fillInterpolate(sorted, column, dateTimeCol)
          [] method = DropRow ->
                SelectSeq(sorted, LAMBDA row : IsValid(Get(row, column)))
          [] method = ZeroFill ->
                [i \in 1..Len(sorted) |->
                    With(sorted[i], column,
                         IF IsValid(Get(sorted[i], column))
                         THEN Get(sorted[i], column) ELSE Num(0))]
          [] OTHER -> sorted

(***************************************************************************)
(* handleDuplicates                                                        *)
(***************************************************************************)
\* key of a row in the groups Map
GroupKey(row, dateTimeCol) == StringOf(Get(row, dateTimeCol))

\* keys of the Map in the order of each key's last occurrence
RECURSIVE GroupKeysLastSeen(_, _)
GroupKeysLastSeen(data, dateTimeCol) ==
    IF data = <<>> THEN <<>>
    ELSE LET k == GroupKey(Head(data), dateTimeCol)
             rest == GroupKeysLastSeen(Tail(data), dateTimeCol)
         IN  IF \E i \in 1..Len(rest) : rest[i] = k THEN rest ELSE <<k>> \o rest

\* keys of the Map in iteration order: the order of first insertion
RECURSIVE GroupKeys(_, _)
GroupKeys(data, dateTimeCol) ==
    IF data = <<>> THEN <<>>
    ELSE LET front == SubSeq(data, 1, Len(data) - 1)
             k == GroupKey(data[Len(data)], dateTimeCol)
             keys == GroupKeys(front, dateTimeCol)
         IN  IF \E i \in 1..Len(keys) : keys[i] = k THEN keys ELSE Append(keys, k)

\* groups.get(key): the rows with that key, in input order
GroupRows(data, dateTimeCol, key) ==
    SelectSeq(data, LAMBDA r : GroupKey(r, dateTimeCol) = key)

\* rows.map(r => parseFloat(r[col])).filter(v => !isNaN(v))
NumericValues(rows, col) ==
    SelectSeq([i \in 1..Len(rows) |-> parseFloat(Get(rows[i], col))],
              LAMBDA v : ~IsNaN(v))

RECURSIVE RSum(_)
RSum(vs) == IF vs = <<>> THEN Num(0) ELSE RAdd(Head(vs), RSum(Tail(vs)))

RMax(vs) == CHOOSE v \in {vs[i] : i \in 1..Len(vs)} :
                \A j \in 1..Len(vs) : ~RLess(v, vs[j])
RMin(vs) == CHOOSE v \in {vs[i] : i \in 1..Len(vs)} :
                \A j \in 1..Len(vs) : ~RLess(vs[j], v)

\* the switch on method for a column with at least one numeric entry
AggregateValues(values, method) ==
    CASE method = "Average values" -> RDivInt(RSum(values), Len(values))
      [] method = "Maximum value" -> RMax(values)
      [] method = "Minimum value" -> RMin(values)
      [] OTHER -> values[1]

\* the columns that are aggregated: the keys of the group's first row
AggregateColumns(rows, dateTimeCol) == (DOMAIN rows[1]) \ {dateTimeCol}

AggregateGroup(rows, dateTimeCol, method) ==
    [c \in {dateTimeCol} \cup AggregateColumns(rows, dateTimeCol) |->
        IF c = dateTimeCol THEN Get(rows[1], dateTimeCol)
        ELSE LET values == NumericValues(rows, c)
             IN  IF Len(values) = 0 THEN Get(rows[1], c)
                 ELSE AggregateValues(values, method)]

handleDuplicates(data, dateTimeCol, method) ==
    LET keys == GroupKeys(data, dateTimeCol)
    IN  [j \in 1..Len(keys) |->
            LET rows == GroupRows(data, dateTimeCol, keys[j])
            IN  IF Len(rows) = 1 THEN rows[1]
                ELSE AggregateGroup(rows, dateTimeCol, method)]

\* createStack: the method handed to handleDuplicates for an overlap policy
OverlapMethod(overlapHandling) ==
    IF overlapHandling = "average" THEN "Average values"
    ELSE IF overlapHandling = "first" THEN "Keep first" ELSE "Keep last"

(***************************************************************************)
(* alignToTimestamps                                                       *)
(***************************************************************************)
AlignNearest == "Fill with the nearest value"
AlignLinear == "Do a linear interpolation from the nearest values"
AlignAverage == "Take an average of the available values within the interval"

\* the window width used by the averaging method
WindowIntervalMs == 60000

\* data.map(...).filter(d => !isNaN(d.time)).sort((a, b) => a.time - b.time)
SourcePoints(data, dateTimeCol, valueCol) ==
    LET points == [i \in 1..Len(data) |->
                      [time |-> DateTime(Get(data[i], dateTimeCol)),
                       value |-> Get(data[i], valueCol)]]
        kept == SelectSeq(points, LAMBDA p : ~IsNaN(p.time))
        timed == [i \in 1..Len(kept) |->
                      ("t" :> DateText(kept[i].time.n, <<>>)) @@ ("value" :> kept[i].value)]
        sorted == SortByTime(timed, "t")
    IN  [i \in 1..Len(sorted) |->
            [time |-> sorted[i]["t"].n, value |-> sorted[i]["value"]]]

\* d.time - targetMs without the absolute value
DistanceSigned(time, targetMs) == time - targetMs

\* Math.abs(d.time - targetMs)
Distance(time, targetMs) == Abs(time - targetMs)

\* dist <= nearestDist: the last of equally distant points wins
CloserOrEqual(dist, nearestDist) == dist <= nearestDist

\* dist < nearestDist
Closer(dist, nearestDist) == dist < nearestDist

\* the scan for the nearest point; hasNearest is false while nearestDist is
\* still Infinity
RECURSIVE NearestScan(_, _, _, _, _, _)
NearestScan(sourceData, i, targetMs, nearest, nearestDist, hasNearest) ==
    IF i > Len(sourceData) THEN nearest
    ELSE LET dist == Distance(sourceData[i].time, targetMs)
         IN  IF ~hasNearest \/ Closer(dist, nearestDist)
             THEN NearestScan(sourceData, i + 1, targetMs, sourceData[i].value,
                              dist, TRUE)
             ELSE NearestScan(sourceData, i + 1, targetMs, nearest, nearestDist,
                              hasNearest)

NearestValue(sourceData, targetMs) ==
    NearestScan(sourceData, 1, targetMs, Null, 0, FALSE)

\* the scan keeping the first point with time <= target instead of the last
RECURSIVE BeforeScanFirst(_, _, _, _)
BeforeScanFirst(sourceData, i, targetMs, before) ==
    IF i > Len(sourceData) THEN before
    ELSE LET b == IF sourceData[i].time <= targetMs /\ before = 0 THEN i ELSE before
         IN  IF sourceData[i].time >= targetMs THEN b
             ELSE BeforeScanFirst(sourceData, i + 1, targetMs, b)

\* index of the last point scanned with time <= target (0 if none); the scan
\* stops at the first point with time >= target
RECURSIVE BeforeScan(_, _, _, _)
BeforeScan(sourceData, i, targetMs, before) ==
    IF i > Len(sourceData) THEN before
    ELSE LET b == IF sourceData[i].time <= targetMs THEN i ELSE before
         IN  IF sourceData[i].time >= targetMs THEN b
             ELSE BeforeScan(sourceData, i + 1, targetMs, b)

\* index of the first point with time >= target (0 if none)
RECURSIVE AfterScan(_, _, _)
AfterScan(sourceData, i, targetMs) ==
    IF i > Len(sourceData) THEN 0
    ELSE IF sourceData[i].time >= targetMs THEN i
         ELSE AfterScan(sourceData, i + 1, targetMs)

LinearValue(sourceData, targetMs) ==
    LET bi == BeforeScan(sourceData, 1, targetMs, 0)
        ai == AfterScan(sourceData, 1, targetMs)
    IN  IF bi = 0 /\ ai = 0 THEN Null
        ELSE IF bi = 0 THEN sourceData[ai].value
        ELSE IF ai = 0 THEN sourceData[bi].value
        ELSE IF sourceData[bi].time = sourceData[ai].time THEN sourceData[bi].value
        ELSE LET beforeVal == parseFloat(sourceData[bi].value)
                 afterVal == parseFloat(sourceData[ai].value)
             IN  IF ~IsNaN(beforeVal) /\ ~IsNaN(afterVal)
                 THEN Interpolate(beforeVal, afterVal, sourceData[bi].time,
                                  sourceData[ai].time, targetMs)
                 ELSE sourceData[bi].value

\* window [target - interval/2, target + interval/2), compared doubled to
\* stay in the integers
WindowValues(sourceData, targetMs) ==
    LET inWindow == SelectSeq(sourceData,
                        LAMBDA p : /\ 2 * p.time >= 2 * targetMs - WindowIntervalMs
                                   /\ 2 * p.time < 2 * targetMs + WindowIntervalMs)
        parsed == [i \in 1..Len(inWindow) |-> parseFloat(inWindow[i].value)]
    IN  SelectSeq(parsed, LAMBDA v : ~IsNaN(v))

\* an empty window left without a value
FallbackNone(sourceData, targetMs) == Null

\* the else branch of the averaging method: fall back to nearest
Fallback(sourceData, targetMs) == NearestValue(sourceData, targetMs)

AverageValue(sourceData, targetMs) ==
    LET windowValues == WindowValues(sourceData, targetMs)
    IN  IF Len(windowValues) > 0
        THEN RDivInt(RSum(windowValues), Len(windowValues))
        ELSE Fallback(sourceData, targetMs)

\* an empty result for a source without usable timestamps
EmptyAlignedNone(targetTimestamps) == <<>>

\* targetTimestamps.map(() => null)
EmptyAligned(targetTimestamps) == [i \in 1..Len(targetTimestamps) |-> Null]

alignToTimestamps(data, targetTimestamps, dateTimeCol, valueCol, method) ==
    LET sourceData == SourcePoints(data, dateTimeCol, valueCol)
    IN  IF Len(sourceData) = 0
        THEN EmptyAligned(targetTimestamps)
        ELSE [i \in 1..Len(targetTimestamps) |->
                 CASE method = AlignNearest ->
                          NearestValue(sourceData, targetTimestamps[i])
                   [] method = AlignLinear ->
                          LinearValue(sourceData, targetTimestamps[i])
                   [] method = AlignAverage ->
                          AverageValue(sourceData, targetTimestamps[i])
                   [] OTHER -> Null]

(***************************************************************************)
(* createCombinedDataset.  A source is a record                            *)
(*   [name, data, dateTimeCol, selectedCols, cleanup, units,               *)
(*    hasDuplicates, dupeHandling]                                         *)
(* selectedCols is the sequence of <<original column, output title>> in    *)
(* Object.entries order; cleanup and units map a column to its setting,    *)
(* "" when unset.                                                          *)
(***************************************************************************)
Setting(map, col) == IF col \in DOMAIN map THEN map[col] ELSE ""
OrDefault(x, default) == IF x = "" THEN default ELSE x

\* the data the cleanup of the next column works on: a fresh copy per column
CleanupInputFresh(processed, fileInfo) ==
    IF fileInfo.hasDuplicates
    THEN handleDuplicates(fileInfo.data, fileInfo.dateTimeCol,
                          OrDefault(fileInfo.dupeHandling, "Average values"))
    ELSE fileInfo.data

\* the data the cleanup of the next column works on: the working copy left
\* by the previous column
CleanupInput(processed, fileInfo) == processed

\* the source's records after a cleanup that sorted and filled them in place
SourceDataInPlace(data, cleaned) == cleaned

\* the source's records after a cleanup: applyCleanup sorts a copy
\* ([...data]) and every fill goes into a copy of its row ({ ...row }), so
\* the records the source holds are as they were
SourceData(data, cleaned) == data

\* combined.data[i][newTitle] = alignedValues[i] for every grid index
WriteColumn(rows, newTitle, alignedValues) ==
    [i \in 1..Len(rows) |-> With(rows[i], newTitle, alignedValues[i])]

(***************************************************************************)
(* parseInterval: /^(\d+)(s|min|h|D)$/ then value * unit in milliseconds;  *)
(* no match gives the 1-minute default.                                    *)
(***************************************************************************)
DefaultIntervalMs == 60000

UnitMs(u) ==
    CASE u = <<"s">> -> 1000
      [] u = <<"m", "i", "n">> -> 60 * 1000
      [] u = <<"h">> -> 60 * 60 * 1000
      [] u = <<"D">> -> 24 * 60 * 60 * 1000
      [] OTHER -> 0

IntervalMatch(interval) ==
    LET k == DigitRun(interval, 1)
    IN  /\ k >= 1
        /\ UnitMs(SubSeq(interval, k + 1, Len(interval))) # 0

parseInterval(interval) ==
    IF ~IntervalMatch(interval) THEN DefaultIntervalMs
    ELSE LET k == DigitRun(interval, 1)
             value == DecVal(SubSeq(interval, 1, k))
         IN  value * UnitMs(SubSeq(interval, k + 1, Len(interval)))

(***************************************************************************)
(* Inputs of the grid generator.                                           *)
(***************************************************************************)
IntervalSpecs ==
    { <<"1", "s">>, <<"2", "s">>, <<"0", "s">>, <<"0", "m", "i", "n">>,
      <<"1", "m", "i", "n">>, <<"2", "m", "i", "n">>, <<"1", "h">>,
      <<"1", "D">>, <<"1", "0", "s">>, <<"0", "0", "h">>,
      <<>>, <<"s">>, <<"5">>, <<"-", "1", "s">>, <<"1", "m">>,
      <<"1", "s", "s">>, <<"1", " ", "s">>, <<"x", "1", "s">> }

GridStarts == { 0, 1000, 60000 }
GridEnds == { 0, 500, 1000, 2500, 4000, 60000, 120000, 179999 }

(***************************************************************************)
(* generateTimeIndex, one loop iteration per step.                         *)
(***************************************************************************)
\* loop test of generateTimeIndex with the end point left out
LoopTestExclusive(cur, end) == cur < end

LoopTest(cur, end) == cur <= end

GridCall ==
    /\ gpc = "idle"
    /\ intervalMs' = parseInterval(gInterval)
    /\ timestamps' = <<>>
    /\ current' = gStart
    /\ gpc' = "loop"
    /\ UNCHANGED <<gInterval, gStart, gEnd, dupVars, cleanVars, combineVars, restVars>>

\* the loop condition holds: the body runs
GridTest ==
    /\ gpc = "loop"
    /\ LoopTest(current, gEnd)
    /\ gpc' = "body"
    /\ UNCHANGED <<gInterval, gStart, gEnd, intervalMs, current, timestamps,
                   dupVars, cleanVars, combineVars, restVars>>

\* the loop body.  With an interval of 0 the body appends the same instant
\* on every round; of these copies the first MaxGrid are kept.
GridPush ==
    /\ gpc = "body"
    /\ Len(timestamps) < MaxGrid \/ intervalMs = 0
    /\ timestamps' = IF Len(timestamps) < MaxGrid
                     THEN Append(timestamps, current) ELSE timestamps
    /\ current' = current + intervalMs
    /\ gpc' = "loop"
    /\ UNCHANGED <<gInterval, gStart, gEnd, intervalMs, dupVars, cleanVars, combineVars, restVars>>

GridReturn ==
    /\ gpc = "loop"
    /\ ~LoopTest(current, gEnd)
    /\ gpc' = "done"
    /\ UNCHANGED <<gInterval, gStart, gEnd, intervalMs, current, timestamps,
                   dupVars, cleanVars, combineVars, restVars>>

IdleDup ==
    dData = <<>> /\ dMethod = "" /\ dOverlap = "" /\ dOut = <<>> /\ dpc = "off"
IdleClean == cData = <<>> /\ cMethod = "" /\ cOut = <<>> /\ cpc = "off"
IdleCombine ==
    /\ filesData = <<>> /\ kGrid = <<>> /\ alignmentOptions = <<>>
    /\ combined = <<>> /\ processedData = <<>>
    /\ fileIdx = 0 /\ colIdx = 0 /\ kpc = "off"
IdleAlign ==
    /\ aData = <<>> /\ aInterval = <<>> /\ aGrid = <<>> /\ aMethod = ""
    /\ aOut = <<>> /\ apc = "off"
IdlePivot == pData = <<>> /\ pOut = <<>> /\ ppc = "off"
IdleStack == files = <<>> /\ stacks = <<>> /\ spc = "off"
IdleRest == IdleAlign /\ IdlePivot /\ IdleStack
IdleGrid ==
    /\ gInterval = <<>> /\ gStart = 0 /\ gEnd = 0 /\ intervalMs = 0
    /\ current = 0 /\ timestamps = <<>> /\ gpc = "off"

GridInit ==
    /\ gInterval \in IntervalSpecs
    /\ gStart \in GridStarts
    /\ gEnd \in GridEnds
    /\ intervalMs = 0
    /\ current = 0
    /\ timestamps = <<>>
    /\ gpc = "idle"
    /\ IdleDup
    /\ IdleClean
    /\ IdleCombine
    /\ IdleRest

GridNext == GridCall \/ GridTest \/ GridPush \/ GridReturn

SpecGrid == GridInit /\ [][GridNext]_vars

\* the calls whose grid, for a positive interval, has at most MaxGrid entries
GridShortEnds == { e \in GridEnds : e <= 4000 }

GridFairInit == GridInit /\ gEnd \in GridShortEnds

\* the loop is synchronous code: a step that can be taken is taken
SpecGridFair == GridFairInit /\ [][GridNext]_vars /\ WF_vars(GridNext)

(***************************************************************************)
(* Duplicate resolution: a direct call with the file's dupeHandling, or    *)
(* the call createStack makes on the time-sorted concatenation with the    *)
(* method chosen by the overlap policy.                                    *)
(***************************************************************************)
DtCol == "DateTime"

DupTimes ==
    { DateText(0, <<" ">>), DateText(0, <<"T">>), DateText(60000, <<" ">>) }
DupValues == { Num(4), Num(6), Str(<<"x">>) }
DupRows ==
    { (DtCol :> t) @@ ("v" :> v) : t \in DupTimes, v \in DupValues }
        \cup { (DtCol :> t) : t \in DupTimes }

DupeHandlingOptions == { "Average values", "Maximum value", "Minimum value" }
OverlapOptions == { "average", "first", "last" }

DupInit ==
    /\ dData \in SeqUpTo(DupRows, MaxRows)
    /\ \/ dMethod \in DupeHandlingOptions /\ dOverlap = ""
       \/ dMethod = "" /\ dOverlap \in OverlapOptions
    /\ dOut = <<>>
    /\ dpc = "idle"
    /\ IdleGrid
    /\ IdleClean
    /\ IdleCombine
    /\ IdleRest

\* what handleDuplicates is called with
DupInput == IF dOverlap = "" THEN dData ELSE SortByTime(dData, DtCol)
DupMethod == IF dOverlap = "" THEN dMethod ELSE OverlapMethod(dOverlap)

DupResolve ==
    /\ dpc = "idle"
    /\ dOverlap = ""
    /\ dOut' = handleDuplicates(dData, DtCol, dMethod)
    /\ dpc' = "done"
    /\ UNCHANGED <<dData, dMethod, dOverlap, gridVars, cleanVars, combineVars, restVars>>

DupStackOverlap ==
    /\ dpc = "idle"
    /\ dOverlap # ""
    /\ dOut' = handleDuplicates(SortByTime(dData, DtCol), DtCol,
                                OverlapMethod(dOverlap))
    /\ dpc' = "done"
    /\ UNCHANGED <<dData, dMethod, dOverlap, gridVars, cleanVars, combineVars, restVars>>

DupNext == DupResolve \/ DupStackOverlap

SpecDup == DupInit /\ [][DupNext]_vars

(***************************************************************************)
(* createCombinedDataset, one step per source and per selected column.     *)
(* The first source ranges over small record sequences and settings, the   *)
(* second is fixed, so that an effect of the first on the second shows.    *)
(***************************************************************************)
\* FileHandlers.hasDuplicateTimestamps
hasDuplicateTimestamps(data, dateTimeCol) ==
    \E i, j \in 1..Len(data) :
        /\ i < j
        /\ Get(data[i], dateTimeCol).k \notin {"null", "undef"}
        /\ Get(data[j], dateTimeCol).k \notin {"null", "undef"}
        /\ StringOf(Get(data[i], dateTimeCol)) = StringOf(Get(data[j], dateTimeCol))

CombineTimes == { DateText(0, <<" ">>), DateText(60000, <<" ">>) }
CombineRows ==
    { (DtCol :> t) @@ ("a" :> a) @@ ("b" :> b) :
        t \in CombineTimes, a \in {Num(1), Null}, b \in {Num(2), Null} }

SelectedColsOptions ==
    { <<>>, << <<"a", "A">> >>, << <<"b", "B">> >>,
      << <<"a", "A">>, <<"b", "B">> >>, << <<"b", "B">>, <<"a", "A">> >> }

FirstSources ==
    { [name |-> "f1", data |-> d, dateTimeCol |-> DtCol, selectedCols |-> sel,
       cleanup |-> ("a" :> ca) @@ ("b" :> cb),
       units |-> ("a" :> "kW"),
       hasDuplicates |-> hasDuplicateTimestamps(d, DtCol),
       dupeHandling |-> dh] :
        d \in SeqUpTo(CombineRows, MaxFileRows),
        sel \in SelectedColsOptions,
        ca \in {DropRow, NearestFill, ZeroFill},
        cb \in {DropRow, LinearFill, ""},
        dh \in {"Average values", "Maximum value"} }

SecondSource ==
    [name |-> "f2",
     data |-> << (DtCol :> DateText(0, <<"T">>)) @@ ("a" :> Num(7)),
                 (DtCol :> DateText(60000, <<"T">>)) @@ ("a" :> Num(8)) >>,
     dateTimeCol |-> DtCol,
     selectedCols |-> << <<"a", "A2">> >>,
     cleanup |-> <<>>,
     units |-> <<>>,
     hasDuplicates |-> FALSE,
     dupeHandling |-> "Average values"]

CombineGrids == { <<0, 60000>>, <<0, 30000, 60000>> }
AlignOptions == { AlignNearest, AlignLinear, AlignAverage }

CombineInit ==
    /\ \E f \in FirstSources :
          /\ f.hasDuplicates \/ f.dupeHandling = "Average values"
          /\ filesData = <<f, SecondSource>>
    /\ kGrid \in CombineGrids
    /\ \E m \in AlignOptions : alignmentOptions = ("f1" :> m)
    /\ combined = <<>>
    /\ processedData = <<>>
    /\ fileIdx = 0
    /\ colIdx = 0
    /\ kpc = "idle"
    /\ IdleGrid
    /\ IdleDup
    /\ IdleClean
    /\ IdleRest

\* const combined = { timestamps, columns: [], units: [], data: ... }
CombineCall ==
    /\ kpc = "idle"
    /\ combined' = [timestamps |-> kGrid, columns |-> <<>>, units |-> <<>>,
                    data |-> [i \in 1..Len(kGrid) |-> (DtCol :> Num(kGrid[i]))]]
    /\ fileIdx' = 1
    /\ kpc' = "file"
    /\ UNCHANGED <<filesData, kGrid, alignmentOptions, processedData, colIdx,
                   gridVars, dupVars, cleanVars, restVars>>

\* a source without selected columns is skipped
CombineSkipFile ==
    /\ kpc = "file"
    /\ fileIdx <= Len(filesData)
    /\ Len(filesData[fileIdx].selectedCols) = 0
    /\ fileIdx' = fileIdx + 1
    /\ UNCHANGED <<filesData, kGrid, alignmentOptions, combined, processedData,
                   colIdx, kpc, gridVars, dupVars, cleanVars, restVars>>

\* let processedData = [...fileInfo.data], then the duplicate handling
CombineBeginFile ==
    /\ kpc = "file"
    /\ fileIdx <= Len(filesData)
    /\ Len(filesData[fileIdx].selectedCols) > 0
    /\ LET fileInfo == filesData[fileIdx] IN
       processedData' =
           IF fileInfo.hasDuplicates
           THEN handleDuplicates(fileInfo.data, fileInfo.dateTimeCol,
                                 OrDefault(fileInfo.dupeHandling, "Average values"))
           ELSE fileInfo.data
    /\ colIdx' = 1
    /\ kpc' = "column"
    /\ UNCHANGED <<filesData, kGrid, alignmentOptions, combined, fileIdx,
                   gridVars, dupVars, cleanVars, restVars>>

\* one iteration of the loop over the selected columns
CombineColumn ==
    /\ kpc = "column"
    /\ colIdx <= Len(filesData[fileIdx].selectedCols)
    /\ LET fileInfo == filesData[fileIdx]
           origCol == fileInfo.selectedCols[colIdx][1]
           newTitle == fileInfo.selectedCols[colIdx][2]
           cleanupMethod == OrDefault(Setting(fileInfo.cleanup, origCol), NearestFill)
           cleaned == applyCleanup(CleanupInput(processedData, fileInfo), origCol,
                                   cleanupMethod, fileInfo.dateTimeCol)
           alignmentMethod == OrDefault(Setting(alignmentOptions, fileInfo.name),
                                        AlignNearest)
           alignedValues == alignToTimestamps(cleaned, kGrid, fileInfo.dateTimeCol,
                                              origCol, alignmentMethod)
       IN  /\ processedData' = cleaned
           /\ filesData' = [filesData EXCEPT
                  ![fileIdx].data = SourceData(@, cleaned)]
           /\ combined' = [combined EXCEPT
                  !.columns = Append(@, newTitle),
                  !.units = Append(@, Setting(fileInfo.units, origCol)),
                  !.data = WriteColumn(@, newTitle, alignedValues)]
    /\ colIdx' = colIdx + 1
    /\ UNCHANGED <<kGrid, alignmentOptions, fileIdx, kpc,
                   gridVars, dupVars, cleanVars, restVars>>

CombineEndFile ==
    /\ kpc = "column"
    /\ colIdx > Len(filesData[fileIdx].selectedCols)
    /\ fileIdx' = fileIdx + 1
    /\ kpc' = "file"
    /\ UNCHANGED <<filesData, kGrid, alignmentOptions, combined, processedData,
                   colIdx, gridVars, dupVars, cleanVars, restVars>>

CombineReturn ==
    /\ kpc = "file"
    /\ fileIdx > Len(filesData)
    /\ kpc' = "done"
    /\ UNCHANGED <<filesData, kGrid, alignmentOptions, combined, processedData,
                   fileIdx, colIdx, gridVars, dupVars, cleanVars, restVars>>

CombineNext ==
    \/ CombineCall
    \/ CombineSkipFile
    \/ CombineBeginFile
    \/ CombineColumn
    \/ CombineEndFile
    \/ CombineReturn

SpecCombine == CombineInit /\ [][CombineNext]_vars

(***************************************************************************)
(* createCombinedDataset on sources whose selections name a column the     *)
(* records do not have, or give two columns the same output title.         *)
(***************************************************************************)
MixRows ==
    { (DtCol :> DateText(0, <<" ">>)) @@ ("a" :> Num(1)) @@ ("b" :> Num(2)),
      (DtCol :> DateText(60000, <<" ">>)) @@ ("a" :> Null) @@ ("b" :> Num(3)),
      (DtCol :> DateText(60000, <<" ">>)) @@ ("a" :> Num(5)) }

MixSelections ==
    { <<>>, << <<"a", "A">> >>, << <<"a", "A">>, <<"b", "B">> >>,
      << <<"a", "A">>, <<"b", "A">> >>, << <<"c", "C">>, <<"a", "A">> >> }

MixFirstSources ==
    { [name |-> "f1", data |-> d, dateTimeCol |-> DtCol, selectedCols |-> sel,
       cleanup |-> ("a" :> ca) @@ ("b" :> cb),
       units |-> ("a" :> "kW"),
       hasDuplicates |-> hasDuplicateTimestamps(d, DtCol),
       dupeHandling |-> "Average values"] :
        d \in SeqUpTo(MixRows, MaxFileRows),
        sel \in MixSelections,
        ca \in {NearestFill, DropRow},
        cb \in {"", ZeroFill} }

MixSecondSources ==
    { [SecondSource EXCEPT !.selectedCols = << <<"a", title>> >>] :
        title \in {"A", "A2"} }

CombineMixInit ==
    /\ filesData \in { <<f, g>> : f \in MixFirstSources, g \in MixSecondSources }
    /\ kGrid \in CombineGrids
    /\ \E m \in AlignOptions : alignmentOptions = ("f1" :> m)
    /\ combined = <<>>
    /\ processedData = <<>>
    /\ fileIdx = 0
    /\ colIdx = 0
    /\ kpc = "idle"
    /\ IdleGrid
    /\ IdleDup
    /\ IdleClean
    /\ IdleRest

SpecCombineMix == CombineMixInit /\ [][CombineNext]_vars

(***************************************************************************)
(* Alignment of one column of one record sequence to a grid built by       *)
(* generateTimeIndex from an interval string.                              *)
(***************************************************************************)
\* generateTimeIndex as a function of its arguments, for a positive interval
RECURSIVE TimeIndexFrom(_, _, _)
TimeIndexFrom(cur, end, ms) ==
    IF LoopTest(cur, end) THEN <<cur>> \o TimeIndexFrom(cur + ms, end, ms) ELSE <<>>

generateTimeIndex(start, end, interval) ==
    TimeIndexFrom(start, end, parseInterval(interval))

AlignIntervals ==
    { <<"3", "0", "s">>, <<"1", "m", "i", "n">>, <<"2", "m", "i", "n">> }
AlignSpans == { <<0, 60000>>, <<0, 120000>>, <<60000, 0>> }

AlignTimes == { DateText(0, <<" ">>), DateText(60000, <<" ">>), DateText(90000, <<" ">>) }
AlignValues == { Num(4), Num(8) }
AlignRows ==
    ({ (DtCol :> t) @@ ("v" :> v) : t \in AlignTimes, v \in AlignValues }
        \ { (DtCol :> DateText(90000, <<" ">>)) @@ ("v" :> Num(4)) })
        \cup { (DtCol :> DateText(60000, <<" ">>)) @@ ("v" :> Null),
               (DtCol :> Str(<<"n", "/", "a">>)) @@ ("v" :> Num(4)) }
AlignMethods == { AlignNearest, AlignLinear, AlignAverage, "" }

AlignInit ==
    /\ aData \in SeqUpTo(AlignRows, MaxAlignRows)
    /\ aInterval \in AlignIntervals
    /\ \E span \in AlignSpans :
          aGrid = generateTimeIndex(span[1], span[2], aInterval)
    /\ aMethod \in AlignMethods
    /\ aOut = <<>>
    /\ apc = "idle"
    /\ IdleGrid
    /\ IdleDup
    /\ IdleClean
    /\ IdleCombine
    /\ IdlePivot
    /\ IdleStack

AlignApply ==
    /\ apc = "idle"
    /\ aOut' = alignToTimestamps(aData, aGrid, DtCol, "v", aMethod)
    /\ apc' = "done"
    /\ UNCHANGED <<aData, aInterval, aGrid, aMethod, gridVars, dupVars,
                   cleanVars, combineVars, pivotVars, stackVars>>

AlignNext == AlignApply

SpecAlign == AlignInit /\ [][AlignNext]_vars

(***************************************************************************)
(* pivotToWideFormat: long-format records (timestamp, tag, value) to one   *)
(* record per timestamp with one column per tag.  Column names are texts.  *)
(***************************************************************************)
RECURSIVE TrimLeft(_)
TrimLeft(s) == IF s # <<>> /\ Head(s) = " " THEN TrimLeft(Tail(s)) ELSE s
RECURSIVE TrimRight(_)
TrimRight(s) ==
    IF s # <<>> /\ s[Len(s)] = " " THEN TrimRight(SubSeq(s, 1, Len(s) - 1)) ELSE s

\* String(row[tagCol]).trim()
TagOf(row, tagCol) == TrimRight(TrimLeft(StringOf(Get(row, tagCol)).s))

\* the distinct tags in the order of each tag's last occurrence
RECURSIVE TagSetLastSeen(_, _)
TagSetLastSeen(data, tagCol) ==
    IF data = <<>> THEN <<>>
    ELSE LET t == TagOf(Head(data), tagCol)
             rest == TagSetLastSeen(Tail(data), tagCol)
         IN  IF \E i \in 1..Len(rest) : rest[i] = t THEN rest ELSE <<t>> \o rest

\* [...new Set(data.map(...))]: the distinct tags in first-insertion order
RECURSIVE TagSet(_, _)
TagSet(data, tagCol) ==
    IF data = <<>> THEN <<>>
    ELSE LET tags == TagSet(SubSeq(data, 1, Len(data) - 1), tagCol)
             t == TagOf(data[Len(data)], tagCol)
         IN  IF \E i \in 1..Len(tags) : tags[i] = t THEN tags ELSE Append(tags, t)

\* .filter(t => t): the empty text is dropped
UniqueTags(data, tagCol) == SelectSeq(TagSet(data, tagCol), LAMBDA t : t # <<>>)

\* a cell that keeps the value it already has
SetCellOnce(wide, tag, value) ==
    IF tag \in DOMAIN wide THEN wide ELSE With(wide, tag, value)

\* grouped.get(tsKey)[tag] = value
SetCell(wide, tag, value) == With(wide, tag, value)

\* the wide record of one timestamp text after the rows up to i are in
RECURSIVE WideRow(_, _, _, _, _)
WideRow(rows, i, dateTimeCol, tagCol, valueCol) ==
    IF i = 0 THEN (dateTimeCol :> Get(rows[1], dateTimeCol))
    ELSE SetCell(WideRow(rows, i - 1, dateTimeCol, tagCol, valueCol),
                 TagOf(rows[i], tagCol), Get(rows[i], valueCol))

pivotToWideFormat(data, dateTimeCol, tagCol, valueCol) ==
    LET uniqueTags == UniqueTags(data, tagCol)
        keys == GroupKeys(data, dateTimeCol)
        grouped == [j \in 1..Len(keys) |->
                       LET rows == GroupRows(data, dateTimeCol, keys[j])
                       IN  WideRow(rows, Len(rows), dateTimeCol, tagCol, valueCol)]
    IN  [data |-> SortByTime(grouped, dateTimeCol),
         columns |-> <<dateTimeCol>> \o uniqueTags,
         tagCount |-> Len(uniqueTags)]

PivotDtCol == <<"T", "i", "m", "e">>
PivotTagCol == <<"T", "a", "g">>
PivotValueCol == <<"V", "a", "l">>

PivotTimes ==
    { DateText(0, <<" ">>), DateText(0, <<"T">>), DateText(60000, <<" ">>) }
PivotTags == { Str(<<"A">>), Str(<<"B">>) }
PivotValues == { Num(4), Num(8) }
LongRow(t, tag, v) == (PivotDtCol :> t) @@ (PivotTagCol :> tag) @@ (PivotValueCol :> v)
PivotRows ==
    { LongRow(t, tag, v) : t \in PivotTimes, tag \in PivotTags, v \in PivotValues }
        \cup { LongRow(DateText(0, <<" ">>), Str(<<" ", "A", " ">>), Num(8)),
               LongRow(DateText(0, <<" ">>), Str(<<" ">>), Num(4)) }

PivotInit ==
    /\ pData \in SeqUpTo(PivotRows, MaxPivotRows)
    /\ pOut = <<>>
    /\ ppc = "idle"
    /\ IdleGrid
    /\ IdleDup
    /\ IdleClean
    /\ IdleCombine
    /\ IdleAlign
    /\ IdleStack

PivotApply ==
    /\ ppc = "idle"
    /\ pOut' = pivotToWideFormat(pData, PivotDtCol, PivotTagCol, PivotValueCol)
    /\ ppc' = "done"
    /\ UNCHANGED <<pData, gridVars, dupVars, cleanVars, combineVars, alignVars,
                   stackVars>>

PivotNext == PivotApply

SpecPivot == PivotInit /\ [][PivotNext]_vars

(***************************************************************************)
(* Stacks: createStack over the loaded files, removal of a file or of a    *)
(* stack, and applyPivot on a file or a stack.  A file or stack is a       *)
(* record of AppState.files / AppState.stacks, kept here in a sequence     *)
(* with its key as the name field; column lists whose order is the key     *)
(* order of a record are kept as sets.  Column names are texts.  Handlers  *)
(* run to completion one at a time: spc is "idle" between them.            *)
(***************************************************************************)
VCol == <<"v">>
WCol == <<"w">>

\* the instants getDateRange looks at: null and unparsable values are skipped
RangeTimes(data, dateTimeCol) ==
    { TimeOf(data[i], dateTimeCol) :
        i \in { j \in 1..Len(data) :
                  /\ Get(data[j], dateTimeCol).k \notin {"null", "undef"}
                  /\ ~IsNaN(DateTime(Get(data[j], dateTimeCol))) } }

getDateRange(data, dateTimeCol) ==
    IF RangeTimes(data, dateTimeCol) = {}
    THEN [earliest |-> Null, latest |-> Null]
    ELSE [earliest |-> Num(MinOf(RangeTimes(data, dateTimeCol))),
          latest |-> Num(MaxOf(RangeTimes(data, dateTimeCol)))]

FileInfo(name, data, columns, selectableColumns) ==
    [name |-> name, data |-> data, columns |-> columns,
     selectableColumns |-> selectableColumns,
     dateTimeCol |-> PivotDtCol, dateTimeCols |-> <<PivotDtCol>>,
     hasDuplicates |-> hasDuplicateTimestamps(data, PivotDtCol),
     dateRange |-> getDateRange(data, PivotDtCol),
     selectedCols |-> <<>>, units |-> <<>>, cleanup |-> <<>>,
     dupeHandling |-> "Average values",
     longFormatInfo |-> Null,
     isPivoted |-> FALSE]

\* AppState.files[fn]
FileNamed(fn) == files[CHOOSE i \in 1..Len(files) : files[i].name = fn]

\* the comparator of selectedFiles.sort is negative: a has a date, and b has
\* none or a later one
SortsBefore(a, b) ==
    LET dateA == FileNamed(a).dateRange.earliest
        dateB == FileNamed(b).dateRange.earliest
    IN  /\ dateA # Null
        /\ dateB = Null \/ dateA.n < dateB.n

RECURSIVE InsertByEarliest(_, _)
InsertByEarliest(fn, sorted) ==
    IF sorted = <<>> THEN <<fn>>
    ELSE IF SortsBefore(fn, Head(sorted)) THEN <<fn>> \o sorted
         ELSE <<Head(sorted)>> \o InsertByEarliest(fn, Tail(sorted))

RECURSIVE SortByEarliest(_)
SortByEarliest(selectedFiles) ==
    IF selectedFiles = <<>> THEN <<>>
    ELSE InsertByEarliest(selectedFiles[Len(selectedFiles)],
                          SortByEarliest(SubSeq(selectedFiles, 1,
                                                Len(selectedFiles) - 1)))

HasColumn(cols, c) == \E i \in 1..Len(cols) : cols[i] = c

\* the selectable columns of the first file that every other file has too
CommonColumns(selectedFiles) ==
    SelectSeq(FileNamed(selectedFiles[1]).selectableColumns,
              LAMBDA c : \A i \in 2..Len(selectedFiles) :
                            HasColumn(FileNamed(selectedFiles[i]).selectableColumns, c))

RECURSIVE ConcatData(_)
ConcatData(selectedFiles) ==
    IF selectedFiles = <<>> THEN <<>>
    ELSE FileNamed(Head(selectedFiles)).data \o ConcatData(Tail(selectedFiles))

KeepAll == "keep_all"

ResolveOverlap(combinedData, dtCol, overlapHandling) ==
    IF overlapHandling # KeepAll
    THEN handleDuplicates(combinedData, dtCol, OverlapMethod(overlapHandling))
    ELSE combinedData

StackInfo(stackName, selectedFiles, overlapHandling) ==
    LET firstFile == FileNamed(selectedFiles[1])
        dtCol == firstFile.dateTimeCol
        combinedData == ResolveOverlap(SortByTime(ConcatData(selectedFiles), dtCol),
                                       dtCol, overlapHandling)
    IN  [name |-> stackName,
         files |-> selectedFiles,
         overlapHandling |-> overlapHandling,
         data |-> combinedData,
         columns |-> IF Len(combinedData) > 0 THEN DOMAIN combinedData[1]
                     ELSE firstFile.columns,
         selectableColumns |-> CommonColumns(selectedFiles),
         dateTimeCol |-> dtCol,
         dateTimeCols |-> firstFile.dateTimeCols,
         dateRange |-> getDateRange(combinedData, dtCol),
         rowCount |-> Len(combinedData),
         selectedCols |-> <<>>,
         units |-> <<>>,
         cleanup |-> <<>>,
         dupeHandling |-> "Average values",
         hasDuplicates |-> FALSE]

StackExists(stackName) == \E k \in 1..Len(stacks) : stacks[k].name = stackName

FileNames == { "f1", "f2", "f3" }
\* the files ticked for a new stack, in the order they were ticked
Selections ==
    { sel \in SeqUpTo(FileNames, 3) :
        Len(sel) >= 1 /\ \A i, j \in 1..Len(sel) : i # j => sel[i] # sel[j] }
StackNameInputs == { <<>>, <<" ">>, <<"S">> }
OverlapHandlingOptions == { KeepAll, "average", "first", "last" }

StackTimes ==
    { DateText(0, <<" ">>), DateText(0, <<"T">>), DateText(60000, <<" ">>) }
StackRows ==
    { (PivotDtCol :> t) @@ (VCol :> Num(4)) : t \in StackTimes }
        \cup { (PivotDtCol :> DateText(0, <<" ">>)) @@ (VCol :> Num(6)) }
ThirdFileData ==
    << (PivotDtCol :> DateText(60000, <<" ">>)) @@ (VCol :> Num(6)) @@ (WCol :> Num(1)) >>

StackInit ==
    /\ \E d1, d2 \in SeqUpTo(StackRows, MaxStackRows) :
          files = << FileInfo("f1", d1, {PivotDtCol, VCol}, <<VCol>>),
                     FileInfo("f2", d2, {PivotDtCol, VCol}, <<VCol>>),
                     FileInfo("f3", ThirdFileData, {PivotDtCol, VCol, WCol},
                              <<WCol, VCol>>) >>
    /\ stacks = <<>>
    /\ spc = "idle"
    /\ IdleGrid
    /\ IdleDup
    /\ IdleClean
    /\ IdleCombine
    /\ IdleAlign
    /\ IdlePivot

FileExists(fn) == \E i \in 1..Len(files) : files[i].name = fn

\* the ticked files are files of AppState.files: removing a file unticks it
CreateStack ==
    /\ spc = "idle"
    /\ \E nameInput \in StackNameInputs, selected \in Selections,
          overlapHandling \in OverlapHandlingOptions :
          LET stackName == TrimRight(TrimLeft(nameInput))
          IN  /\ \A i \in 1..Len(selected) : FileExists(selected[i])
              /\ ~(Len(selected) < 2 \/ stackName = <<>>)
              /\ ~StackExists(stackName)
              /\ stacks' = Append(stacks,
                                  StackInfo(stackName, SortByEarliest(selected),
                                            overlapHandling))
    /\ UNCHANGED <<files, spc, gridVars, dupVars, cleanVars, combineVars,
                   alignVars, pivotVars>>

StackNext == CreateStack

SpecStack == StackInit /\ [][StackNext]_vars

(***************************************************************************)
(* The life of files and stacks: createStack, the remove buttons of a file *)
(* and of a stack, and the pivot button of a file or stack panel.          *)
(***************************************************************************)
\* stack.files.splice(idx, 1): a file is in a stack's list once
Splice(stackFiles, fileName) == SelectSeq(stackFiles, LAMBDA f : f # fileName)

\* rebuildStackData, for a stack that still has two files or more
rebuildStackData(stack) ==
    LET firstFile == FileNamed(stack.files[1])
        dtCol == firstFile.dateTimeCol
        combinedData == SortByTime(ConcatData(stack.files), dtCol)
    IN  [stack EXCEPT !.data = combinedData,
                      !.dateRange = getDateRange(combinedData, dtCol),
                      !.rowCount = Len(combinedData)]

RECURSIVE removeFileFromAllStacks(_, _)
removeFileFromAllStacks(allStacks, fileName) ==
    IF allStacks = <<>> THEN <<>>
    ELSE LET stack == Head(allStacks)
             rest == removeFileFromAllStacks(Tail(allStacks), fileName)
         IN  IF ~HasColumn(stack.files, fileName) THEN <<stack>> \o rest
             ELSE IF Len(Splice(stack.files, fileName)) < 2 THEN rest
                  ELSE <<rebuildStackData([stack EXCEPT
                                             !.files = Splice(@, fileName)])>> \o rest

\* the click handler of a file's remove button
RemoveFile ==
    /\ spc = "idle"
    /\ \E fileName \in FileNames :
          /\ FileExists(fileName)
          /\ stacks' = removeFileFromAllStacks(stacks, fileName)
          /\ files' = SelectSeq(files, LAMBDA f : f.name # fileName)
    /\ UNCHANGED <<spc, gridVars, dupVars, cleanVars, combineVars, alignVars, pivotVars>>

\* the click handler of a stack's remove button
RemoveStack ==
    /\ spc = "idle"
    /\ \E k \in 1..Len(stacks) :
          stacks' = SelectSeq(stacks, LAMBDA st : st.name # stacks[k].name)
    /\ UNCHANGED <<files, spc, gridVars, dupVars, cleanVars, combineVars, alignVars,
                   pivotVars>>

UpperCase ==
    <<"A", "B", "C", "D", "E", "F", "G", "H", "I", "J", "K", "L", "M",
      "N", "O", "P", "Q", "R", "S", "T", "U", "V", "W", "X", "Y", "Z">>
LowerCase ==
    <<"a", "b", "c", "d", "e", "f", "g", "h", "i", "j", "k", "l", "m",
      "n", "o", "p", "q", "r", "s", "t", "u", "v", "w", "x", "y", "z">>
toLowerCase(s) ==
    [i \in 1..Len(s) |->
        IF \E k \in 1..26 : UpperCase[k] = s[i]
        THEN LowerCase[CHOOSE k \in 1..26 : UpperCase[k] = s[i]]
        ELSE s[i]]

\* String.prototype.includes
Includes(s, sub) ==
    \E i \in 0..(Len(s) - Len(sub)) : SubSeq(s, i + 1, i + Len(sub)) = sub

\* /^index$/ ... /^unnamed$/: the names excluded as a whole
ExcludedNames ==
    { <<"i", "n", "d", "e", "x">>, <<"i", "d", "x">>, <<"i", "d">>,
      <<"r", "o", "w">>, <<"r", "o", "w", "_", "n", "u", "m">>,
      <<"r", "o", "w", "_", "n", "u", "m", "b", "e", "r">>,
      <<"u", "n", "n", "a", "m", "e", "d">> }

\* /^prefix\s*\d+$/
NumberedName(s, prefix) ==
    /\ Len(s) > Len(prefix)
    /\ SubSeq(s, 1, Len(prefix)) = prefix
    /\ LET i == Len(prefix) + 1 + SpaceRun(s, Len(prefix) + 1)
       IN  /\ DigitRun(s, i) >= 1
           /\ i + DigitRun(s, i) - 1 = Len(s)

getSelectableColumns(columns, dateTimeCols) ==
    SelectSeq(columns,
              LAMBDA col :
                  LET colLower == TrimRight(TrimLeft(toLowerCase(col)))
                  IN  /\ ~HasColumn(dateTimeCols, col)
                      /\ colLower \notin ExcludedNames
                      /\ ~NumberedName(colLower, <<"u", "n", "n", "a", "m", "e", "d", ":">>)
                      /\ ~NumberedName(colLower, <<"c", "o", "l", "u", "m", "n">>)
                      /\ ~Includes(colLower, <<"d", "a", "t", "e">>)
                      /\ ~Includes(colLower, <<"t", "i", "m", "e">>))

\* detectSeparateDateTimeColumns finds a column called date and one called time
HasSeparateDateTime(columns) ==
    /\ \E col \in columns : TrimRight(TrimLeft(toLowerCase(col))) = <<"d", "a", "t", "e">>
    /\ \E col \in columns : TrimRight(TrimLeft(toLowerCase(col))) = <<"t", "i", "m", "e">>

\* the fields applyPivot assigns, over the fields it leaves alone; without a
\* separate date column dataToProcess is info.data and dateTimeCol stays
PivotedInfo(info, tagCol, valueCol) ==
    LET dateTimeCol == info.dateTimeCol
        pivoted == pivotToWideFormat(info.data, dateTimeCol, tagCol, valueCol)
    IN  [data |-> pivoted.data,
         columns |-> { pivoted.columns[i] : i \in 1..Len(pivoted.columns) },
         isPivoted |-> TRUE,
         originalTagCount |-> pivoted.tagCount,
         dateTimeCol |-> dateTimeCol,
         selectableColumns |-> getSelectableColumns(pivoted.columns, info.dateTimeCols),
         dateRange |-> getDateRange(pivoted.data, dateTimeCol),
         hasDuplicates |-> hasDuplicateTimestamps(pivoted.data, dateTimeCol),
         longFormatInfo |-> Null,
         selectedCols |-> <<>>,
         units |-> <<>>,
         cleanup |-> <<>>] @@ info

\* a stack made by createStack has no isPivoted field: it reads as false
IsPivoted(info) == "isPivoted" \in DOMAIN info /\ info.isPivoted

\* what the two selects of a pivot panel can hold, tag column first: nothing,
\* or a column name
PivotSelections ==
    { << <<>>, VCol >>, << VCol, <<>> >>, << VCol, VCol >>, << <<"x">>, VCol >> }
\* the names a panel can carry: a file's, or a stack's
PanelNames(isStack) ==
    IF isStack THEN { TrimRight(TrimLeft(n)) : n \in StackNameInputs } \ { <<>> }
    ELSE FileNames

\* applyPivot(name, tagCol, valueCol, isStack); the panel of a source that is
\* already pivoted has no pivot button
applyPivot(name, tagCol, valueCol, isStack) ==
    LET infos == IF isStack THEN stacks ELSE files
        found == \E i \in 1..Len(infos) : infos[i].name = name
        at == CHOOSE i \in 1..Len(infos) : infos[i].name = name
        after == IF ~found \/ tagCol = <<>> \/ valueCol = <<>>
                 THEN infos
                 ELSE [infos EXCEPT ![at] = PivotedInfo(@, tagCol, valueCol)]
    IN  /\ found => ~IsPivoted(infos[at]) /\ ~HasSeparateDateTime(infos[at].columns)
        /\ stacks' = IF isStack THEN after ELSE stacks
        /\ files' = IF isStack THEN files ELSE after

ApplyPivot ==
    /\ spc = "idle"
    /\ \E isStack \in BOOLEAN, selection \in PivotSelections :
       \E name \in PanelNames(isStack) :
          applyPivot(name, selection[1], selection[2], isStack)
    /\ UNCHANGED <<spc, gridVars, dupVars, cleanVars, combineVars, alignVars, pivotVars>>

\* the first file ranges over small record sequences, the other two are fixed
SecondFileData == << (PivotDtCol :> DateText(0, <<"T">>)) @@ (VCol :> Num(4)) >>

StackLifeInit ==
    /\ \E d1 \in SeqUpTo(StackRows, MaxLifeRows) :
          files = << FileInfo("f1", d1, {PivotDtCol, VCol}, <<VCol>>),
                     FileInfo("f2", SecondFileData, {PivotDtCol, VCol}, <<VCol>>),
                     [FileInfo("f3", ThirdFileData, {PivotDtCol, VCol, WCol},
                               <<WCol, VCol>>)
                        EXCEPT !.selectedCols = (WCol :> <<"W">>)] >>
    /\ stacks = <<>>
    /\ spc = "idle"
    /\ IdleGrid
    /\ IdleDup
    /\ IdleClean
    /\ IdleCombine
    /\ IdleAlign
    /\ IdlePivot

StackLifeNext == CreateStack \/ RemoveFile \/ RemoveStack \/ ApplyPivot

SpecStackLife == StackLifeInit /\ [][StackLifeNext]_vars

(***************************************************************************)
(* Properties of the grid generator.                                       *)
(***************************************************************************)
GridLength == IF gStart <= gEnd THEN ((gEnd - gStart) \div intervalMs) + 1 ELSE 0

\* C1: for start <= end and a strictly positive interval the returned grid is
\* exactly start + i*interval for i = 0 .. floor((end-start)/interval): that
\* many entries, strictly increasing, uniformly spaced, none beyond end; for
\* start > end the grid is empty.
C1_GridIsArithmetic ==
    gpc = "done" =>
        /\ gStart > gEnd => timestamps = <<>>
        /\ (gStart <= gEnd /\ intervalMs > 0) =>
              /\ Len(timestamps) = GridLength
              /\ \A i \in 1..Len(timestamps) :
                    /\ timestamps[i] = gStart + (i - 1) * intervalMs
                    /\ timestamps[i] <= gEnd
              /\ \A i \in 1..(Len(timestamps) - 1) :
                    timestamps[i + 1] - timestamps[i] = intervalMs

C1_Witness ==
    /\ gpc = "done"
    /\ gStart = 1000 /\ gEnd = 4000 /\ intervalMs = 1000
    /\ timestamps = <<1000, 2000, 3000, 4000>>

\* C2: the interval used to build the grid is always strictly positive: an
\* unrecognized or non-positive spec (a zero value included) gives 60000 ms.
C2_IntervalPositive ==
    gpc \in {"loop", "body", "done"} =>
        /\ intervalMs > 0
        /\ (~IntervalMatch(gInterval) \/ DecVal(SubSeq(gInterval, 1, DigitRun(gInterval, 1))) = 0)
              => intervalMs = DefaultIntervalMs

(***************************************************************************)
(* Properties of handleDuplicates.                                         *)
(***************************************************************************)
IsTimeSorted(rows) ==
    \A i \in 1..(Len(rows) - 1) : TimeOf(rows[i], DtCol) <= TimeOf(rows[i + 1], DtCol)

\* the input rows that went into output record j
DupGroup(j) == GroupRows(DupInput, DtCol, GroupKey(dOut[j], DtCol))

GroupColumns(rows) == (UNION { DOMAIN rows[i] : i \in 1..Len(rows) }) \ {DtCol}

\* C3: after handleDuplicates the output holds at most one record per
\* distinct instant, whatever the spelling of the timestamps.
C3_OnePerInstant ==
    dpc = "done" =>
        \A i, j \in 1..Len(dOut) :
            i < j => TimeOf(dOut[i], DtCol) # TimeOf(dOut[j], DtCol)

\* C4: in a group of more than one record, every non-timestamp column with at
\* least one numeric entry resolves to the mean / largest / smallest of its
\* numeric entries under Average / Maximum / Minimum.
C4_NumericAggregation ==
    (dpc = "done" /\ DupMethod \in DupeHandlingOptions) =>
        \A j \in 1..Len(dOut) :
            LET rows == DupGroup(j) IN
            Len(rows) > 1 =>
                \A c \in GroupColumns(rows) :
                    LET nums == NumericValues(rows, c) IN
                    Len(nums) > 0 =>
                        /\ c \in DOMAIN dOut[j]
                        /\ DupMethod = "Average values" =>
                              RMul(dOut[j][c], Num(Len(nums))) = RSum(nums)
                        /\ DupMethod = "Maximum value" =>
                              /\ \E i \in 1..Len(nums) : nums[i] = dOut[j][c]
                              /\ \A i \in 1..Len(nums) : ~RLess(dOut[j][c], nums[i])
                        /\ DupMethod = "Minimum value" =>
                              /\ \E i \in 1..Len(nums) : nums[i] = dOut[j][c]
                              /\ \A i \in 1..Len(nums) : ~RLess(nums[i], dOut[j][c])

\* C5: in a group of more than one record, Keep first resolves every
\* non-timestamp column to the first record's raw value and Keep last to the
\* last record's raw value.
C5_KeepFirstKeepLast ==
    (dpc = "done" /\ DupMethod \in {"Keep first", "Keep last"}) =>
        \A j \in 1..Len(dOut) :
            LET rows == DupGroup(j)
                pick == IF DupMethod = "Keep first" THEN rows[1] ELSE rows[Len(rows)]
            IN  Len(rows) > 1 =>
                    \A c \in GroupColumns(rows) : Get(dOut[j], c) = Get(pick, c)

\* position of the first input row with the given key
FirstIndex(key) ==
    CHOOSE i \in 1..Len(DupInput) :
        /\ GroupKey(DupInput[i], DtCol) = key
        /\ \A h \in 1..(i - 1) : GroupKey(DupInput[h], DtCol) # key

CleanTimes == { DateText(0, <<" ">>), DateText(20, <<" ">>), DateText(30, <<" ">>) }
CleanValues == { Num(0), Num(6), Null, Str(<<>>) }
CleanRows ==
    { (DtCol :> t) @@ ("v" :> v) : t \in CleanTimes, v \in CleanValues }
        \cup { (DtCol :> DateText(20, <<"T">>)) @@ ("v" :> Null) @@ ("w" :> Num(1)) }
CleanupOptions == { NearestFill, LinearFill, DropRow, ZeroFill }

CleanInit ==
    /\ cData \in SeqUpTo(CleanRows, MaxSeries)
    /\ cMethod \in CleanupOptions
    /\ cOut = <<>>
    /\ cpc = "idle"
    /\ IdleGrid
    /\ IdleDup
    /\ IdleCombine
    /\ IdleRest

CleanApply ==
    /\ cpc = "idle"
    /\ cOut' = applyCleanup(cData, "v", cMethod, DtCol)
    /\ cpc' = "done"
    /\ UNCHANGED <<cData, cMethod, gridVars, dupVars, combineVars, restVars>>

CleanNext == CleanApply

SpecClean == CleanInit /\ [][CleanNext]_vars

(***************************************************************************)
(* Properties of the cleanup.                                              *)
(***************************************************************************)
\* the series as the fill routines receive it
CleanSorted == SortByTime(cData, DtCol)

IsMissing(v) == v \in {Null, Undefined, Str(<<>>)}
MissingAt(rows, i) == IsMissing(Get(rows[i], "v"))

\* indices of the valid entries of the sorted input before / after i
ValidBefore(i) == { p \in 1..(i - 1) : ~MissingAt(CleanSorted, p) }
ValidAfter(i) == { q \in (i + 1)..Len(CleanSorted) : ~MissingAt(CleanSorted, q) }

\* C8: NearestFill replaces a missing entry that has a valid entry before it
\* with the nearest preceding valid value (never the following one), and one
\* with no valid entry before it with the nearest following valid value.
C8_NearestFillPrecedingFirst ==
    (cpc = "done" /\ cMethod = NearestFill) =>
        /\ Len(cOut) = Len(CleanSorted)
        /\ \A i \in 1..Len(CleanSorted) :
              MissingAt(CleanSorted, i) =>
                  IF ValidBefore(i) # {}
                  THEN Get(cOut[i], "v") = Get(CleanSorted[MaxOf(ValidBefore(i))], "v")
                  ELSE IF ValidAfter(i) # {}
                       THEN Get(cOut[i], "v") = Get(CleanSorted[MinOf(ValidAfter(i))], "v")
                       ELSE MissingAt(cOut, i)

\* an interior gap whose following neighbour is closer in time and differs
C8_Witness ==
    /\ cpc = "done" /\ cMethod = NearestFill
    /\ Len(cOut) = 3
    /\ Get(CleanSorted[1], "v") = Num(0) /\ TimeOf(CleanSorted[1], DtCol) = 0
    /\ MissingAt(CleanSorted, 2) /\ TimeOf(CleanSorted[2], DtCol) = 20
    /\ Get(CleanSorted[3], "v") = Num(6) /\ TimeOf(CleanSorted[3], DtCol) = 30
    /\ Get(cOut[2], "v") = Num(0)

\* C9: with at least one non-missing value (0 included), after NearestFill no
\* missing entry remains strictly between the first and the last non-missing
\* index.
C9_NoInteriorGap ==
    (cpc = "done" /\ cMethod = NearestFill) =>
        LET valid == { i \in 1..Len(cOut) : ~MissingAt(cOut, i) } IN
        valid # {} =>
            \A i \in 1..Len(cOut) :
                (MinOf(valid) < i /\ i < MaxOf(valid)) => ~MissingAt(cOut, i)

\* a gap between two zeros
C9_Witness ==
    /\ cpc = "done" /\ cMethod = NearestFill
    /\ Len(cOut) >= 3
    /\ Get(CleanSorted[1], "v") = Num(0)
    /\ MissingAt(CleanSorted, 2)
    /\ Get(CleanSorted[Len(CleanSorted)], "v") = Num(0)
    /\ \A i \in 1..Len(cOut) : Get(cOut[i], "v") = Num(0)

\* C10: cleanup LinearInterpolate turns a missing entry at time t into
\* vb + (t - tb)/(ta - tb) * (va - vb) when the nearest valid entries before
\* (tb, vb) and after (ta, va) both exist with tb # ta, into the value of the
\* one side that exists otherwise, and leaves it missing when none exists.
C10_LinearFill ==
    (cpc = "done" /\ cMethod = LinearFill) =>
        /\ Len(cOut) = Len(CleanSorted)
        /\ \A i \in 1..Len(CleanSorted) :
              MissingAt(CleanSorted, i) =>
                  LET B == ValidBefore(i)
                      A == ValidAfter(i)
                      out == Get(cOut[i], "v")
                  IN  CASE B # {} /\ A # {} ->
                              LET b == CleanSorted[MaxOf(B)]
                                  a == CleanSorted[MinOf(A)]
                              IN  TimeOf(b, DtCol) # TimeOf(a, DtCol) =>
                                      out = Interpolate(parseFloat(Get(b, "v")),
                                                        parseFloat(Get(a, "v")),
                                                        TimeOf(b, DtCol),
                                                        TimeOf(a, DtCol),
                                                        TimeOf(CleanSorted[i], DtCol))
                        [] B # {} /\ A = {} ->
                              parseFloat(out) = parseFloat(Get(CleanSorted[MaxOf(B)], "v"))
                        [] B = {} /\ A # {} ->
                              parseFloat(out) = parseFloat(Get(CleanSorted[MinOf(A)], "v"))
                        [] OTHER -> IsMissing(out)

(***************************************************************************)
(* Properties of createCombinedDataset.                                    *)
(***************************************************************************)
\* the column of the combined table under a title, as a sequence
CombinedColumn(title) == [i \in 1..Len(combined.data) |-> Get(combined.data[i], title)]

\* the selected columns of the current source already cleaned and aligned
DoneColumns ==
    { filesData[fileIdx].selectedCols[j][1] : j \in 1..(colIdx - 1) }

\* a source's records as the first column's cleanup receives them
StartData(fileInfo) ==
    IF fileInfo.hasDuplicates
    THEN handleDuplicates(fileInfo.data, fileInfo.dateTimeCol, fileInfo.dupeHandling)
    ELSE fileInfo.data

\* C7: the cleanup of one source's selected columns runs in selection order
\* over one shared working copy: a row dropped by DropRow for an earlier
\* column is absent when every later column of that source is cleaned and
\* aligned; the working copy of another source is unaffected.
C7_SharedWorkingCopy ==
    /\ kpc = "column" =>
          /\ \A c \in DoneColumns :
                Setting(filesData[fileIdx].cleanup, c) = DropRow =>
                    \A i \in 1..Len(processedData) :
                        ~IsMissing(Get(processedData[i], c))
          /\ Len(processedData) <= Len(StartData(filesData[fileIdx]))
          /\ colIdx = 1 => processedData = StartData(filesData[fileIdx])
    /\ kpc = "done" =>
          \A f \in 1..Len(filesData) :
              Len(filesData[f].selectedCols) > 0 =>
                  LET fileInfo == filesData[f]
                      origCol == fileInfo.selectedCols[1][1]
                      title == fileInfo.selectedCols[1][2]
                  IN  CombinedColumn(title) =
                          alignToTimestamps(
                              applyCleanup(StartData(fileInfo), origCol,
                                  OrDefault(Setting(fileInfo.cleanup, origCol), NearestFill),
                                  fileInfo.dateTimeCol),
                              kGrid, fileInfo.dateTimeCol, origCol,
                              OrDefault(Setting(alignmentOptions, fileInfo.name),
                                        AlignNearest))

\* column a is dropped first and takes with it the only row holding b = 2
C7_Witness ==
    /\ kpc = "done"
    /\ filesData[1].selectedCols = << <<"a", "A">>, <<"b", "B">> >>
    /\ filesData[1].cleanup["a"] = DropRow
    /\ filesData[1].cleanup["b"] = LinearFill
    /\ filesData[1].data =
          << (DtCol :> DateText(0, <<" ">>)) @@ ("a" :> Null) @@ ("b" :> Num(2)),
             (DtCol :> DateText(60000, <<" ">>)) @@ ("a" :> Num(1)) @@ ("b" :> Null) >>
    /\ \A i \in 1..Len(kGrid) : Get(combined.data[i], "B") = Null
    /\ CombinedColumn("A2")[1] = Num(7)
    /\ CombinedColumn("A2")[Len(kGrid)] = Num(8)

(***************************************************************************)
(* Properties of alignToTimestamps.                                        *)
(***************************************************************************)
\* the series alignment works on: the rows with a parsable timestamp, in
\* ascending time order
Series == SourcePoints(aData, DtCol, "v")

Dist(i, g) == IF Series[i].time >= g THEN Series[i].time - g ELSE g - Series[i].time

\* index of the entry nearest to g, the earliest one among equally near ones
NearestIdx(g) ==
    CHOOSE i \in 1..Len(Series) :
        \A j \in 1..Len(Series) :
            /\ Dist(i, g) <= Dist(j, g)
            /\ Dist(j, g) = Dist(i, g) => i <= j

\* C11: NearestNeighbor returns for each grid instant the value of the series
\* entry at the smallest absolute distance, the earlier one in a tie.
C11_NearestFirstWins ==
    (apc = "done" /\ aMethod = AlignNearest /\ Len(Series) > 0) =>
        /\ Len(aOut) = Len(aGrid)
        /\ \A k \in 1..Len(aGrid) : aOut[k] = Series[NearestIdx(aGrid[k])].value

\* the grid instant 30000 lies halfway between the entries at 0 and 60000
C11_Witness ==
    /\ apc = "done" /\ aMethod = AlignNearest
    /\ Len(Series) = 2
    /\ Series[1] = [time |-> 0, value |-> Num(4)]
    /\ Series[2] = [time |-> 60000, value |-> Num(8)]
    /\ Len(aGrid) >= 2 /\ aGrid[2] = 30000
    /\ aOut[2] = Num(4)

AtOrBefore(g) == { i \in 1..Len(Series) : Series[i].time <= g }
AtOrAfter(g) == { i \in 1..Len(Series) : Series[i].time >= g }
IsNumeric(v) == ~IsNaN(parseFloat(v))

\* C12: LinearInterpolate takes the last source point at or before g and the
\* first at or after g: both at distinct times give the time-ratio
\* interpolation of their (numeric) values, an exact match gives the value
\* of a point at g, one side alone gives its value, none gives missing.
C12_LinearAlign ==
    (apc = "done" /\ aMethod = AlignLinear) =>
        /\ Len(aOut) = Len(aGrid)
        /\ \A k \in 1..Len(aGrid) :
              LET g == aGrid[k]
                  B == AtOrBefore(g)
                  A == AtOrAfter(g)
              IN  CASE B = {} /\ A = {} -> aOut[k] = Null
                    [] B = {} /\ A # {} -> aOut[k] = Series[MinOf(A)].value
                    [] B # {} /\ A = {} -> aOut[k] = Series[MaxOf(B)].value
                    [] OTHER ->
                        LET b == Series[MaxOf(B)]
                            a == Series[MinOf(A)]
                        IN  IF b.time = a.time
                            THEN \E i \in B \cap A : aOut[k] = Series[i].value
                            ELSE (IsNumeric(b.value) /\ IsNumeric(a.value)) =>
                                     RMul(RSub(aOut[k], parseFloat(b.value)),
                                          Num(a.time - b.time))
                                       = RMul(RSub(parseFloat(a.value), parseFloat(b.value)),
                                              Num(g - b.time))

\* 60000 lies two thirds of the way from the entry at 0 to the one at 90000
C12_Witness ==
    /\ apc = "done" /\ aMethod = AlignLinear
    /\ Len(Series) = 2
    /\ Series[1] = [time |-> 0, value |-> Num(4)]
    /\ Series[2] = [time |-> 90000, value |-> Num(8)]
    /\ aGrid = <<0, 60000, 120000>>
    /\ aOut = <<Num(4), Rat(20, 3), Num(8)>>

\* the numeric values of the entries within half a grid interval of g
IntervalWindow(g) ==
    { i \in 1..Len(Series) :
        /\ 2 * Series[i].time >= 2 * g - parseInterval(aInterval)
        /\ 2 * Series[i].time < 2 * g + parseInterval(aInterval)
        /\ IsNumeric(Series[i].value) }

RECURSIVE SumOver(_)
SumOver(I) ==
    IF I = {} THEN Num(0)
    ELSE LET i == CHOOSE x \in I : TRUE
         IN  RAdd(parseFloat(Series[i].value), SumOver(I \ {i}))

\* C13: the WindowAverage window is as wide as the grid interval that built
\* the grid (half of it on each side of the grid instant).
C13_WindowIsGridInterval ==
    (apc = "done" /\ aMethod = AlignAverage) =>
        \A k \in 1..Len(aOut) :
            IntervalWindow(aGrid[k]) # {} =>
                RMul(aOut[k], Num(Cardinality(IntervalWindow(aGrid[k]))))
                    = SumOver(IntervalWindow(aGrid[k]))

\* the entries with a numeric value the averaging method finds around g
CodeWindow(g) ==
    { i \in 1..Len(Series) :
        /\ 2 * Series[i].time >= 2 * g - WindowIntervalMs
        /\ 2 * Series[i].time < 2 * g + WindowIntervalMs
        /\ IsNumeric(Series[i].value) }

\* C14: at a grid instant whose window holds no source value the
\* WindowAverage result is the NearestNeighbor result.
C14_EmptyWindowFallsBack ==
    (apc = "done" /\ aMethod = AlignAverage /\ Len(Series) > 0) =>
        \A k \in 1..Len(aOut) :
            CodeWindow(aGrid[k]) = {} =>
                aOut[k] = Series[NearestIdx(aGrid[k])].value

\* nothing within half a minute of 0: the nearest entry is the one at 60000
C14_Witness ==
    /\ apc = "done" /\ aMethod = AlignAverage
    /\ Len(Series) = 2
    /\ Series[1] = [time |-> 60000, value |-> Num(4)]
    /\ Series[2] = [time |-> 90000, value |-> Num(8)]
    /\ Len(aGrid) >= 1 /\ aGrid[1] = 0
    /\ aOut[1] = Num(4)

\* C15: alignToTimestamps returns one entry per grid instant, in grid order,
\* for every method, every series and every grid.
C15_OneEntryPerGridInstant ==
    apc = "done" =>
        /\ Len(aOut) = Len(aGrid)
        /\ \A k \in 1..Len(aGrid) :
              aOut[k] = alignToTimestamps(aData, <<aGrid[k]>>, DtCol, "v", aMethod)[1]

\* a series whose only timestamps cannot be parsed
C15_Witness ==
    /\ apc = "done"
    /\ Len(aData) = 2 /\ Len(Series) = 0
    /\ Len(aGrid) = 3
    /\ aOut = <<Null, Null, Null>>

\* the series has exactly one entry at each grid instant and no other
MatchesGrid ==
    /\ Len(Series) = Len(aData)
    /\ Len(Series) = Len(aGrid)
    /\ \A k \in 1..Len(aGrid) : Series[k].time = aGrid[k]

\* C16: NearestNeighbor on a series that has exactly one entry at each grid
\* instant returns the series' values unchanged and in the same order.
C16_NearestIdempotent ==
    (apc = "done" /\ aMethod = AlignNearest /\ MatchesGrid) =>
        aOut = [k \in 1..Len(Series) |-> Series[k].value]

C16_Witness ==
    /\ apc = "done" /\ aMethod = AlignNearest /\ MatchesGrid
    /\ aGrid = <<0, 60000>>
    /\ aData = << (DtCol :> DateText(60000, <<" ">>)) @@ ("v" :> Num(8)),
                  (DtCol :> DateText(0, <<" ">>)) @@ ("v" :> Num(4)) >>
    /\ aOut = <<Num(4), Num(8)>>

(***************************************************************************)
(* Properties of pivotToWideFormat.                                        *)
(***************************************************************************)
\* the input rows with the timestamp text of a wide record and a given tag
TagRows(wide, tag) ==
    { i \in 1..Len(pData) :
        /\ GroupKey(pData[i], PivotDtCol) = GroupKey(wide, PivotDtCol)
        /\ TagOf(pData[i], PivotTagCol) = tag }

\* C17: when a tag occurs more than once in a timestamp group the wide
\* record holds the value of the last of these rows in input order.
C17_LastValueWins ==
    ppc = "done" =>
        \A j \in 1..Len(pOut.data) :
            \A tag \in (DOMAIN pOut.data[j]) \ {PivotDtCol} :
                /\ TagRows(pOut.data[j], tag) # {}
                /\ pOut.data[j][tag]
                     = pData[MaxOf(TagRows(pOut.data[j], tag))][PivotValueCol]

\* tag A twice at one timestamp, 4 first and 8 last
C17_Witness ==
    /\ ppc = "done"
    /\ pData = << LongRow(DateText(0, <<" ">>), Str(<<"A">>), Num(4)),
                  LongRow(DateText(0, <<" ">>), Str(<<"A">>), Num(8)) >>
    /\ Len(pOut.data) = 1
    /\ pOut.data[1][<<"A">>] = Num(8)

\* the non-empty trimmed tags of the input
InputTags == { TagOf(pData[i], PivotTagCol) : i \in 1..Len(pData) } \ { <<>> }

FirstTagIndex(tag) ==
    MinOf({ i \in 1..Len(pData) : TagOf(pData[i], PivotTagCol) = tag })

\* C18: the columns are the timestamp column followed by each distinct tag
\* once, in the order in which the tags first occur in the input.
C18_ColumnsFirstOccurrence ==
    ppc = "done" =>
        /\ Len(pOut.columns) = 1 + Cardinality(InputTags)
        /\ pOut.columns[1] = PivotDtCol
        /\ { pOut.columns[c] : c \in 2..Len(pOut.columns) } = InputTags
        /\ \A c, e \in 2..Len(pOut.columns) :
              c < e => FirstTagIndex(pOut.columns[c]) < FirstTagIndex(pOut.columns[e])
        /\ pOut.tagCount = Cardinality(InputTags)

\* B occurs before A, and again after it: the columns are not sorted
C18_Witness ==
    /\ ppc = "done"
    /\ Len(pData) = 3
    /\ TagOf(pData[1], PivotTagCol) = <<"B">>
    /\ TagOf(pData[2], PivotTagCol) = <<"A">>
    /\ TagOf(pData[3], PivotTagCol) = <<"B">>
    /\ pOut.columns = <<PivotDtCol, <<"B">>, <<"A">>>>

\* C19: the output has exactly one row per distinct instant of the input
\* (two spellings of one instant are one instant), sorted ascending.
C19_OneRowPerInstant ==
    ppc = "done" =>
        /\ \A i \in 1..(Len(pOut.data) - 1) :
              TimeOf(pOut.data[i], PivotDtCol) < TimeOf(pOut.data[i + 1], PivotDtCol)
        /\ { TimeOf(pOut.data[i], PivotDtCol) : i \in 1..Len(pOut.data) }
             = { TimeOf(pData[i], PivotDtCol) : i \in 1..Len(pData) }

(***************************************************************************)
(* Properties of createStack.                                              *)
(***************************************************************************)
InstantsOf(data) == { TimeOf(data[i], PivotDtCol) : i \in 1..Len(data) }

\* the instants that occur in more than one member file of a stack
Overlapping(stack) ==
    { t \in InstantsOf(ConcatData(stack.files)) :
        \E i, j \in 1..Len(stack.files) :
            /\ i # j
            /\ t \in InstantsOf(FileNamed(stack.files[i]).data)
            /\ t \in InstantsOf(FileNamed(stack.files[j]).data) }

\* the records of a sequence at instants that do not overlap
NonOverlapping(stack, data) ==
    SelectSeq(data, LAMBDA r : TimeOf(r, PivotDtCol) \notin Overlapping(stack))

\* C20: under every overlap policy, the records at instants that occur in
\* only one member file are carried into the stack's data unchanged.
C20_NonOverlappingUntouched ==
    \A k \in 1..Len(stacks) :
        NonOverlapping(stacks[k], stacks[k].data)
            = NonOverlapping(stacks[k],
                             SortByTime(ConcatData(stacks[k].files), PivotDtCol))

\* C25: generateTimeIndex terminates for every start, end and interval
\* string, those with a numeric part of zero included.
C25_Terminates == <>(gpc = "done")

\* C28: a record that handleDuplicates resolves from a group of more than
\* one record has a field for every non-timestamp column present in any
\* record of the group.
C28_UnionOfColumns ==
    dpc = "done" =>
        \A j \in 1..Len(dOut) :
            Len(DupGroup(j)) > 1 =>
                GroupColumns(DupGroup(j)) \subseteq DOMAIN dOut[j]

FillOptions == { NearestFill, LinearFill, ZeroFill }

\* C30: a fill policy on column v returns the rows of the input in ascending
\* time order, one for one, with every non-missing v and every other field
\* as it was; DropRow returns some of these rows, each with every field as
\* it was.
C30_CleanupFrame ==
    cpc = "done" =>
        /\ IsTimeSorted(cOut)
        /\ cMethod \in FillOptions =>
              /\ Len(cOut) = Len(cData)
              /\ \A i \in 1..Len(cOut) :
                    /\ DOMAIN cOut[i] = DOMAIN CleanSorted[i]
                    /\ \A c \in (DOMAIN cOut[i]) \ {"v"} : cOut[i][c] = CleanSorted[i][c]
                    /\ ~MissingAt(CleanSorted, i) => cOut[i]["v"] = CleanSorted[i]["v"]
        /\ cMethod = DropRow =>
              cOut = SelectSeq(CleanSorted,
                               LAMBDA r : \E i \in 1..Len(cOut) : cOut[i] = r)
        /\ \A i \in 1..Len(CleanSorted) :
              \E j \in 1..Len(cData) : CleanSorted[i] = cData[j]

\* the row at 20 has a second column w and a missing v that gets filled
C30_Witness ==
    /\ cpc = "done" /\ cMethod = NearestFill
    /\ cData = << (DtCol :> DateText(30, <<" ">>)) @@ ("v" :> Num(6)),
                  (DtCol :> DateText(20, <<"T">>)) @@ ("v" :> Null) @@ ("w" :> Num(1)),
                  (DtCol :> DateText(0, <<" ">>)) @@ ("v" :> Num(0)) >>
    /\ cOut = << (DtCol :> DateText(0, <<" ">>)) @@ ("v" :> Num(0)),
                 (DtCol :> DateText(20, <<"T">>)) @@ ("v" :> Num(0)) @@ ("w" :> Num(1)),
                 (DtCol :> DateText(30, <<" ">>)) @@ ("v" :> Num(6)) >>

(***************************************************************************)
(* Properties of createCombinedDataset.                                    *)
(***************************************************************************)
\* C21: the combined data has one row per grid instant and every row has,
\* under every title of the column list, a value or the missing marker.
C21_RowsFullyPopulated ==
    kpc = "done" =>
        /\ Len(combined.data) = Len(kGrid)
        /\ \A i \in 1..Len(kGrid) :
              /\ combined.data[i][DtCol] = Num(kGrid[i])
              /\ \A c \in 1..Len(combined.columns) :
                    /\ combined.columns[c] \in DOMAIN combined.data[i]
                    /\ combined.data[i][combined.columns[c]] # Undefined

\* the source has records and none of them has the column
AbsentFrom(fileInfo, col) ==
    /\ Len(fileInfo.data) > 0
    /\ \A i \in 1..Len(fileInfo.data) : col \notin DOMAIN fileInfo.data[i]

\* C22: a selected column that the source's records do not have is left out
\* of the output column list.
C22_AbsentColumnOmitted ==
    kpc = "done" =>
        \A f \in 1..Len(filesData) :
            \A j \in 1..Len(filesData[f].selectedCols) :
                AbsentFrom(filesData[f], filesData[f].selectedCols[j][1]) =>
                    ~HasColumn(combined.columns, filesData[f].selectedCols[j][2])

RECURSIVE PairsFrom(_)
PairsFrom(f) ==
    IF f > Len(filesData) THEN <<>>
    ELSE [j \in 1..Len(filesData[f].selectedCols) |-> <<f, j>>] \o PairsFrom(f + 1)

SelectedPairs == PairsFrom(1)

\* the working copy of a source after the cleanup of its first j columns
RECURSIVE WorkingCopy(_, _)
WorkingCopy(fileInfo, j) ==
    IF j = 0 THEN StartData(fileInfo)
    ELSE applyCleanup(WorkingCopy(fileInfo, j - 1), fileInfo.selectedCols[j][1],
                      OrDefault(Setting(fileInfo.cleanup, fileInfo.selectedCols[j][1]),
                                NearestFill),
                      fileInfo.dateTimeCol)

\* the aligned values of the j-th selected column of source f
AlignedPair(f, j) ==
    alignToTimestamps(WorkingCopy(filesData[f], j), kGrid, filesData[f].dateTimeCol,
                      filesData[f].selectedCols[j][1],
                      OrDefault(Setting(alignmentOptions, filesData[f].name),
                                AlignNearest))

\* C29: columns and units have one entry per selected pair, in source order
\* then selection order, and the rows hold under columns[i] the aligned
\* values of the i-th pair, also when two pairs share a title.
C29_ColumnsMatchPairs ==
    kpc = "done" =>
        /\ Len(combined.columns) = Len(SelectedPairs)
        /\ Len(combined.units) = Len(SelectedPairs)
        /\ \A i \in 1..Len(SelectedPairs) :
              LET f == SelectedPairs[i][1]
                  j == SelectedPairs[i][2]
              IN  /\ combined.columns[i] = filesData[f].selectedCols[j][2]
                  /\ combined.units[i]
                       = Setting(filesData[f].units, filesData[f].selectedCols[j][1])
                  /\ CombinedColumn(combined.columns[i]) = AlignedPair(f, j)

(***************************************************************************)
(* Properties of applyPivot, of file removal and of stack removal.         *)
(***************************************************************************)
\* the columns that occur in the records of a file or stack
RecordColumns(info) == UNION { DOMAIN info.data[i] : i \in 1..Len(info.data) }

\* after is what pivoting before by two columns of its records gives
PivotedByOwnColumns(before, after) ==
    \E tagCol, valueCol \in RecordColumns(before) :
        after = PivotedInfo(before, tagCol, valueCol)

BecomesPivoted(before, after) ==
    before.name = after.name /\ ~IsPivoted(before) /\ IsPivoted(after)

\* C24: a pivot whose tag column or value column is not supplied, or is not a
\* column of the source's records, fails and leaves the source unchanged: a
\* file or stack only ever becomes pivoted by two columns of its own records.
C24_PivotNeedsResolvedColumns ==
    [][ /\ \A i \in 1..Len(files), j \in 1..Len(files') :
              BecomesPivoted(files[i], files'[j])
                  => PivotedByOwnColumns(files[i], files'[j])
        /\ \A i \in 1..Len(stacks), j \in 1..Len(stacks') :
              BecomesPivoted(stacks[i], stacks'[j])
                  => PivotedByOwnColumns(stacks[i], stacks'[j]) ]_vars

\* C26: every stack made with an overlap policy other than keep_all has at
\* most one record per timestamp in its data (timestamps compared as the
\* texts handleDuplicates groups by), also after a member file was removed
\* and the stack's data rebuilt.
C26_OneRecordPerTimestamp ==
    \A k \in 1..Len(stacks) :
        stacks[k].overlapHandling # KeepAll =>
            \A i, j \in 1..Len(stacks[k].data) :
                i < j => GroupKey(stacks[k].data[i], stacks[k].dateTimeCol)
                            # GroupKey(stacks[k].data[j], stacks[k].dateTimeCol)

\* C27: every stack's rowCount is the number of records in its data.
C27_RowCountIsDataLength ==
    \A k \in 1..Len(stacks) : stacks[k].rowCount = Len(stacks[k].data)

====
